---- MODULE Spec2Model ----
(***************************************************************************)
(* Model of checker/src/checklib/config.rs: the validation of a parsed     *)
(* CONFIG.toml tree into a CheckResult {report, config}.                   *)
(*                                                                         *)
(* A toml::Value is a tagged record [t, v]; a table is the sequence of its *)
(* (key, value) pairs in iteration order, with distinct keys.  Numbers     *)
(* with a fractional part (ages, weights) are carried in tenths.           *)
(***************************************************************************)
EXTENDS Integers, Sequences, FiniteSets, TLC

VARIABLES
    root,           \* the toml::Value handed to parse_config
    pc,             \* position inside parse_config
    report,         \* the Report: the sequence of recorded errors
    divisions,      \* parse_config's local `divisions`
    weightclasses,  \* parse_config's local `weightclasses`
    exemptions,     \* parse_config's local `exemptions`
    config,         \* CheckResult.config: None or Some(Config)
    lookup          \* the last call of Config::exemptions_for and its result

vars == <<root, pc, report, divisions, weightclasses, exemptions, config, lookup>>

(***************************************************************************)
(* Option, Result and toml::Value                                          *)
(***************************************************************************)
None == [t |-> "None"]
Some(x) == [t |-> "Some", v |-> x]
Ok(x) == [t |-> "Ok", v |-> x]
Err(e) == [t |-> "Err", v |-> e]

TomlString(s) == [t |-> "String", v |-> s]
TomlInteger(n) == [t |-> "Integer", v |-> n]
TomlFloat(tenths) == [t |-> "Float", v |-> tenths]
TomlBoolean(b) == [t |-> "Boolean", v |-> b]
TomlArray(a) == [t |-> "Array", v |-> a]
TomlTable(pairs) == [t |-> "Table", v |-> pairs]

as_table(value) == IF value.t = "Table" THEN Some(value.v) ELSE None
as_array(value) == IF value.t = "Array" THEN Some(value.v) ELSE None
as_str(value) == IF value.t = "String" THEN Some(value.v) ELSE None

\* table.get(key) on the map of a table
MapGet(pairs, key) ==
    IF \E i \in 1..Len(pairs) : pairs[i].k = key
    THEN Some(pairs[CHOOSE i \in 1..Len(pairs) : pairs[i].k = key].val)
    ELSE None

\* value.get(key): only a table has members
ValueGet(value, key) ==
    IF value.t = "Table" THEN MapGet(value.v, key) ELSE None

\* Option::and_then(|v| v.as_str()) and Option::and_then(|v| v.as_array())
AndThenAsStr(opt) == IF opt = None THEN None ELSE as_str(opt.v)
AndThenAsArray(opt) == IF opt = None THEN None ELSE as_array(opt.v)

\* report.error(format!(msg, args...))
ReportError(rep, msg, args) == Append(rep, [msg |-> msg, args |-> args])

(***************************************************************************)
(* Domain primitives of opltypes: Age, Sex, Equipment, WeightClassKg, Date *)
(***************************************************************************)
AgeExact(n) == [kind |-> "Exact", age |-> n]
AgeApproximate(n) == [kind |-> "Approximate", age |-> n]

\* An age literal: an integer is exact, n.5 is approximate (n or n+1).
TryIntoAge(value) ==
    IF value.t = "Integer" /\ value.v >= 0 THEN Ok(AgeExact(value.v))
    ELSE IF value.t = "Float" /\ value.v >= 0 /\ value.v % 10 = 0
        THEN Ok(AgeExact(value.v \div 10))
    ELSE IF value.t = "Float" /\ value.v >= 0 /\ value.v % 10 = 5
        THEN Ok(AgeApproximate(value.v \div 10))
    ELSE Err("invalid Age")

\* The greatest and the least age an Age value can stand for.
AgeUpper(a) == IF a.kind = "Approximate" THEN a.age + 1 ELSE a.age
AgeLower(a) == a.age

\* Conservative about approximate values: every age self can stand for is
\* below every age other can stand for.
is_definitely_less_than(self, other) == AgeUpper(self) < AgeLower(other)
is_definitely_greater_than(self, other) == AgeLower(self) > AgeUpper(other)

SexNames == {"M", "F"}
ParseSex(s) == IF s \in SexNames THEN Ok([sex |-> s]) ELSE Err("invalid Sex")
TryIntoSex(value) ==
    IF value.t = "String" THEN ParseSex(value.v) ELSE Err("invalid type")

EquipmentNames == {"Raw", "Wraps", "Single-ply", "Multi-ply"}
ParseEquipment(s) ==
    IF s \in EquipmentNames THEN Ok([equipment |-> s]) ELSE Err("invalid Equipment")
TryIntoEquipment(value) ==
    IF value.t = "String" THEN ParseEquipment(value.v) ELSE Err("invalid type")

\* A weight threshold in tenths of a kilogram.
TryIntoWeightClassKg(value) ==
    IF value.t = "Integer" /\ value.v >= 0 THEN Ok(value.v * 10)
    ELSE IF value.t = "Float" /\ value.v >= 0 THEN Ok(value.v)
    ELSE Err("invalid WeightClassKg")

\* A calendar date "YYYY-MM-DD"; the model knows these literals.
DateLiterals == {"2011-01-01", "2018-12-31", "9999-01-01"}
DateOf(s) ==
    CASE s = "2011-01-01" -> [year |-> 2011, month |-> 1, day |-> 1]
      [] s = "2018-12-31" -> [year |-> 2018, month |-> 12, day |-> 31]
      [] s = "9999-01-01" -> [year |-> 9999, month |-> 1, day |-> 1]
TryIntoDate(value) ==
    IF value.t = "String" /\ value.v \in DateLiterals THEN Ok(DateOf(value.v))
    ELSE Err("invalid Date")

(***************************************************************************)
(* enum Exemption, with strum's EnumString: the variant's exact name       *)
(***************************************************************************)
ExemptionVariants ==
    {"ExemptDivision", "ExemptLiftOrder", "ExemptWeightClassConsistency"}
Exemption(variant) == [exemption |-> variant]
ParseExemption(s) ==
    IF s \in ExemptionVariants THEN Ok(Exemption(s)) ELSE Err("Matching variant not found")

(***************************************************************************)
(* parse_divisions                                                         *)
(***************************************************************************)
\* The division names of the model, and str::contains on them.
DivisionNames == {"Open", "Juniors", "Master", "Masters"}
ContainsMaster(name) == name \in {"Master", "Masters"}
ContainsMasters(name) == name \in {"Masters"}

\* division.get("name").and_then(|v| v.as_str())
DivisionName(division) == AndThenAsStr(ValueGet(division, "name"))

\* A variant that compares the name with the last accepted division only.
UniqueNameCheckLastOnly(acc, name, rep) ==
    IF Len(acc) > 0 /\ acc[Len(acc)].name = name
    THEN ReportError(rep, "Division name '{}' must be unique", <<name>>)
    ELSE rep

\* Ensure that the Division name is unique: one error at the first
\* already accepted division of that name.
UniqueNameCheck(acc, name, rep) ==
    IF \E i \in 1..Len(acc) : acc[i].name = name
    THEN ReportError(rep, "Division name '{}' must be unique", <<name>>)
    ELSE rep

\* Standardize on plural variants.
PluralCheck(name, rep) ==
    IF ContainsMaster(name) /\ ~ContainsMasters(name)
    THEN ReportError(rep, "Division name '{}' must use plural 'Masters'", <<name>>)
    ELSE rep

\* Parse the minimum / maximum age: Ok(age), or Err(the error to record).
AgeField(key, division, field) ==
    LET got == ValueGet(division, field) IN
    IF got = None
    THEN Err([msg |-> "Division '{}' is missing the property '{}'",
              args |-> <<key, field>>])
    ELSE LET r == TryIntoAge(got.v) IN
         IF r.t = "Ok" THEN r
         ELSE Err([msg |-> "Failed parsing {}.{}: {}", args |-> <<key, field, r.v>>])

valid_approximate_ages(min_age, max_age) ==
    /\ min_age.kind = "Approximate"
    /\ max_age.kind = "Approximate"
    /\ min_age.age < max_age.age

\* A variant without the exemption of equal ages.
InvalidAgeRangeNoEqual(min_age, max_age) ==
    /\ ~is_definitely_less_than(min_age, max_age)
    /\ ~valid_approximate_ages(min_age, max_age)

\* The age range must be nonmonotonically increasing.
InvalidAgeRange(min_age, max_age) ==
    /\ min_age # max_age
    /\ ~is_definitely_less_than(min_age, max_age)
    /\ ~valid_approximate_ages(min_age, max_age)

\* An optional sex restriction may be provided.
DivisionSex(key, division, rep) ==
    LET got == ValueGet(division, "sex") IN
    IF got = None THEN [val |-> None, report |-> rep]
    ELSE LET r == TryIntoSex(got.v) IN
         IF r.t = "Ok" THEN [val |-> Some(r.v), report |-> rep]
         ELSE [val |-> None,
               report |-> ReportError(rep, "Failed parsing {}.sex: {}", <<key, r.v>>)]

\* The loop over the elements of an equipment array, from element i on.
RECURSIVE EquipmentElements(_, _, _, _, _)
EquipmentElements(key, array, i, vec, rep) ==
    IF i > Len(array) THEN [val |-> vec, report |-> rep]
    ELSE LET r == TryIntoEquipment(array[i]) IN
         IF r.t = "Ok"
         THEN EquipmentElements(key, array, i + 1, Append(vec, r.v), rep)
         ELSE EquipmentElements(key, array, i + 1, vec,
                  ReportError(rep, "Error in {}.equipment: {}", <<key, r.v>>))

\* A variant that leaves the field absent when no element parsed.
EquipmentArrayNoneIfEmpty(key, array, rep) ==
    LET rep1 == IF Len(array) = 0
                THEN ReportError(rep, "{}.equipment cannot be empty", <<key>>)
                ELSE rep
        r == EquipmentElements(key, array, 1, <<>>, rep1)
    IN [val |-> IF r.val = <<>> THEN None ELSE Some(r.val), report |-> r.report]

\* The array branch: an empty array is reported, and the vector is kept.
EquipmentArray(key, array, rep) ==
    LET rep1 == IF Len(array) = 0
                THEN ReportError(rep, "{}.equipment cannot be empty", <<key>>)
                ELSE rep
        r == EquipmentElements(key, array, 1, <<>>, rep1)
    IN [val |-> Some(r.val), report |-> r.report]

\* An optional list of allowed equipment may be provided.
DivisionEquipment(key, division, rep) ==
    LET got == ValueGet(division, "equipment") IN
    IF got = None THEN [val |-> None, report |-> rep]
    ELSE IF as_array(got.v) # None THEN EquipmentArray(key, as_array(got.v).v, rep)
    ELSE IF as_str(got.v) # None
    THEN LET r == ParseEquipment(as_str(got.v).v) IN
         IF r.t = "Ok" THEN [val |-> Some(<<r.v>>), report |-> rep]
         ELSE [val |-> None,
               report |-> ReportError(rep, "Error in {}.equipment: {}", <<key, r.v>>)]
    ELSE [val |-> None,
          report |-> ReportError(rep, "{}.equipment must be a sting or array", <<key>>)]

\* Provides a Tested flag which sets some divisions as default-Tested.
DivisionTested(key, division, rep) ==
    LET got == AndThenAsStr(ValueGet(division, "tested")) IN
    IF got = None THEN [val |-> None, report |-> rep]
    ELSE IF got.v = "Yes" THEN [val |-> Some(TRUE), report |-> rep]
    ELSE IF got.v = "No" THEN [val |-> Some(FALSE), report |-> rep]
    ELSE [val |-> None,
          report |-> ReportError(rep, "Failed parsing {}.tested: invalid '{}'",
                                 <<key, got.v>>)]

\* The steps after the age range check: sex, equipment, tested, acc.push.
DivisionTail(key, division, name, min_age, max_age, acc, rep) ==
    LET sex == DivisionSex(key, division, rep)
        equipment == DivisionEquipment(key, division, sex.report)
        tested == DivisionTested(key, division, equipment.report)
    IN [acc |-> Append(acc, [name |-> name, min |-> min_age, max |-> max_age,
                             sex |-> sex.val, equipment |-> equipment.val,
                             tested |-> tested.val]),
        report |-> tested.report]

\* One iteration of `for (key, division) in table`; every early branch is a
\* `continue` that leaves acc as it was.
DivisionEntry(key, division, acc, rep) ==
    LET name == DivisionName(division) IN
    IF name = None
    THEN [acc |-> acc,
          report |-> ReportError(rep, "Value '{}.name' must be a String", <<key>>)]
    ELSE
    LET rep1 == PluralCheck(name.v, UniqueNameCheck(acc, name.v, rep))
        min_age == AgeField(key, division, "min")
    IN
    IF min_age.t = "Err" THEN [acc |-> acc, report |-> Append(rep1, min_age.v)]
    ELSE
    LET max_age == AgeField(key, division, "max") IN
    IF max_age.t = "Err" THEN [acc |-> acc, report |-> Append(rep1, max_age.v)]
    ELSE IF InvalidAgeRange(min_age.v, max_age.v)
    THEN [acc |-> acc,
          report |-> ReportError(rep1, "Division '{}' has an invalid age range '{}-{}'",
                                 <<key, min_age.v, max_age.v>>)]
    ELSE DivisionTail(key, division, name.v, min_age.v, max_age.v, acc, rep1)

RECURSIVE DivisionLoop(_, _, _, _)
DivisionLoop(table, i, acc, rep) ==
    IF i > Len(table) THEN [acc |-> acc, report |-> rep]
    ELSE LET r == DivisionEntry(table[i].k, table[i].val, acc, rep)
         IN DivisionLoop(table, i + 1, r.acc, r.report)

parse_divisions(value, rep) ==
    IF as_table(value) = None
    THEN [acc |-> <<>>,
          report |-> ReportError(rep, "Section 'divisions' must be a Table", <<>>)]
    ELSE DivisionLoop(as_table(value).v, 1, <<>>, rep)

(***************************************************************************)
(* parse_weightclasses                                                     *)
(***************************************************************************)
\* The loop over the elements of a classes array, from element i on.
RECURSIVE ClassElements(_, _, _, _, _)
ClassElements(key, array, i, vec, rep) ==
    IF i > Len(array) THEN [val |-> vec, report |-> rep]
    ELSE LET r == TryIntoWeightClassKg(array[i]) IN
         IF r.t = "Ok"
         THEN ClassElements(key, array, i + 1, Append(vec, r.v), rep)
         ELSE ClassElements(key, array, i + 1, vec,
                  ReportError(rep, "Error in '{}.classes': {}", <<key, r.v>>))

\* Parse the min and max dates: Ok(<<date_min, date_max>>), or Err(the error).
DateRange(key, weightclass) ==
    LET got == AndThenAsArray(ValueGet(weightclass, "date_range")) IN
    IF got = None
    THEN Err([msg |-> "Value '{}.date_range' must be an Array", args |-> <<key>>])
    ELSE IF Len(got.v) # 2
    THEN Err([msg |-> "Array '{}.date_range' must have 2 items", args |-> <<key>>])
    ELSE LET date_min == TryIntoDate(got.v[1])
             date_max == TryIntoDate(got.v[2])
         IN IF date_min.t = "Err"
            THEN Err([msg |-> "Error in '{}.date_range': {}", args |-> <<key, date_min.v>>])
            ELSE IF date_max.t = "Err"
            THEN Err([msg |-> "Error in '{}.date_range': {}", args |-> <<key, date_max.v>>])
            ELSE Ok(<<date_min.v, date_max.v>>)

\* Parse the sex restriction: Ok(sex), or Err(the error to record).
WeightClassSex(key, weightclass) ==
    LET got == AndThenAsStr(ValueGet(weightclass, "sex")) IN
    IF got = None
    THEN Err([msg |-> "Value '{}.sex' must be a String", args |-> <<key>>])
    ELSE LET r == ParseSex(got.v) IN
         IF r.t = "Ok" THEN r
         ELSE Err([msg |-> "Error in '{}.sex': {}", args |-> <<key, r.v>>])

\* A variant that counts the index from 1.
PositionFromOne(divs, div) ==
    IF \E i \in 1..Len(divs) : divs[i].name = div
    THEN Some(CHOOSE i \in 1..Len(divs) :
                  /\ divs[i].name = div
                  /\ \A j \in 1..(i - 1) : divs[j].name # div)
    ELSE None

\* divisions.iter().position(|r| r.name == div): the first index, from 0.
Position(divs, div) ==
    IF \E i \in 1..Len(divs) : divs[i].name = div
    THEN Some((CHOOSE i \in 1..Len(divs) :
                  /\ divs[i].name = div
                  /\ \A j \in 1..(i - 1) : divs[j].name # div) - 1)
    ELSE None

\* The loop over the names of a divisions array, from element i on.
RECURSIVE DivisionIndices(_, _, _, _, _, _)
DivisionIndices(key, a, divs, i, vec, rep) ==
    IF i > Len(a) THEN [val |-> vec, report |-> rep]
    ELSE LET div == as_str(a[i]) IN
         IF div = None
         THEN DivisionIndices(key, a, divs, i + 1, vec,
                  ReportError(rep, "Array '{}.divisions' may only contain Strings", <<key>>))
         ELSE LET idx == Position(divs, div.v) IN
              IF idx = None
              THEN DivisionIndices(key, a, divs, i + 1, vec,
                       ReportError(rep, "Invalid division '{}' in {}.divisions",
                                   <<div.v, key>>))
              ELSE DivisionIndices(key, a, divs, i + 1, Append(vec, idx.v), rep)

\* A variant that lets equal neighbours pass.
RECURSIVE OrderingCheckStrict(_, _, _, _)
OrderingCheckStrict(key, classes, i, rep) ==
    IF i >= Len(classes) THEN rep
    ELSE OrderingCheckStrict(key, classes, i + 1,
             IF classes[i] > classes[i + 1]
             THEN ReportError(rep, "WeightClassKg '{}' occurs before '{}' in [weightclasses.{}]",
                              <<classes[i], classes[i + 1], key>>)
             ELSE rep)

\* The classes must be ordered from least to greatest: one error for every
\* i in 1..classes.len()-1 with classes[i-1] >= classes[i].
RECURSIVE OrderingCheck(_, _, _, _)
OrderingCheck(key, classes, i, rep) ==
    IF i >= Len(classes) THEN rep
    ELSE OrderingCheck(key, classes, i + 1,
             IF classes[i] >= classes[i + 1]
             THEN ReportError(rep, "WeightClassKg '{}' occurs before '{}' in [weightclasses.{}]",
                              <<classes[i], classes[i + 1], key>>)
             ELSE rep)

\* The steps after the sex: the division restriction, the ordering check, acc.push.
WeightClassTail(key, weightclass, divs, classes, date_range, sex, acc, rep) ==
    LET got == ValueGet(weightclass, "divisions") IN
    IF got # None /\ as_array(got.v) = None
    THEN [acc |-> acc,
          report |-> ReportError(rep, "Value '{}.divisions' must be an Array", <<key>>)]
    ELSE
    LET indices == IF got = None THEN [val |-> None, report |-> rep]
                   ELSE LET r == DivisionIndices(key, as_array(got.v).v, divs, 1, <<>>, rep)
                        IN [val |-> Some(r.val), report |-> r.report]
    IN [acc |-> Append(acc, [name |-> key, classes |-> classes,
                             date_min |-> date_range[1], date_max |-> date_range[2],
                             sex |-> sex, divisions |-> indices.val]),
        report |-> OrderingCheck(key, classes, 1, indices.report)]

\* One iteration of `for (key, weightclass) in table`.
WeightClassEntry(key, weightclass, divs, acc, rep) ==
    LET array == AndThenAsArray(ValueGet(weightclass, "classes")) IN
    IF array = None
    THEN [acc |-> acc,
          report |-> ReportError(rep, "Value '{}.classes' must be an Array", <<key>>)]
    ELSE
    LET classes == ClassElements(key, array.v, 1, <<>>, rep)
        date_range == DateRange(key, weightclass)
    IN
    IF date_range.t = "Err"
    THEN [acc |-> acc, report |-> Append(classes.report, date_range.v)]
    ELSE
    LET sex == WeightClassSex(key, weightclass) IN
    IF sex.t = "Err" THEN [acc |-> acc, report |-> Append(classes.report, sex.v)]
    ELSE WeightClassTail(key, weightclass, divs, classes.val, date_range.v, sex.v,
                         acc, classes.report)

RECURSIVE WeightClassLoop(_, _, _, _, _)
WeightClassLoop(table, divs, i, acc, rep) ==
    IF i > Len(table) THEN [acc |-> acc, report |-> rep]
    ELSE LET r == WeightClassEntry(table[i].k, table[i].val, divs, acc, rep)
         IN WeightClassLoop(table, divs, i + 1, r.acc, r.report)

parse_weightclasses(value, divs, rep) ==
    IF as_table(value) = None
    THEN [acc |-> <<>>,
          report |-> ReportError(rep, "Section 'weightclasses' must be a Table", <<>>)]
    ELSE WeightClassLoop(as_table(value).v, divs, 1, <<>>, rep)

(***************************************************************************)
(* parse_exemptions                                                        *)
(***************************************************************************)
\* The loop over the elements of one exemptions array, from element i on.
RECURSIVE ExemptionElements(_, _, _, _, _)
ExemptionElements(key, array, i, vec, rep) ==
    IF i > Len(array) THEN [val |-> vec, report |-> rep]
    ELSE LET s == as_str(array[i]) IN
         IF s = None
         THEN ExemptionElements(key, array, i + 1, vec,
                  ReportError(rep, "exemptions.{} must contain Strings", <<key>>))
         ELSE LET r == ParseExemption(s.v) IN
              IF r.t = "Ok"
              THEN ExemptionElements(key, array, i + 1, Append(vec, r.v), rep)
              ELSE ExemptionElements(key, array, i + 1, vec,
                       ReportError(rep, "Error in exemptions.{}: {}", <<key, r.v>>))

\* A variant that appends an entry only when some exemption parsed.
ExemptionEntrySkipsEmpty(key, value, acc, rep) ==
    IF as_array(value) = None
    THEN [acc |-> acc,
          report |-> ReportError(rep, "exemptions.{} must be an Array", <<key>>)]
    ELSE LET r == ExemptionElements(key, as_array(value).v, 1, <<>>, rep)
         IN [acc |-> IF r.val = <<>> THEN acc
                     ELSE Append(acc, [meet_folder |-> key, exemptions |-> r.val]),
             report |-> r.report]

\* One iteration of `for (key, exemptions) in table`.
ExemptionEntry(key, value, acc, rep) ==
    IF as_array(value) = None
    THEN [acc |-> acc,
          report |-> ReportError(rep, "exemptions.{} must be an Array", <<key>>)]
    ELSE LET r == ExemptionElements(key, as_array(value).v, 1, <<>>, rep)
         IN [acc |-> Append(acc, [meet_folder |-> key, exemptions |-> r.val]),
             report |-> r.report]

RECURSIVE ExemptionLoop(_, _, _, _)
ExemptionLoop(table, i, acc, rep) ==
    IF i > Len(table) THEN [acc |-> acc, report |-> rep]
    ELSE LET r == ExemptionEntry(table[i].k, table[i].val, acc, rep)
         IN ExemptionLoop(table, i + 1, r.acc, r.report)

parse_exemptions(value, rep) ==
    IF as_table(value) = None
    THEN [acc |-> <<>>,
          report |-> ReportError(rep, "Section 'exemptions' must be a Table", <<>>)]
    ELSE ExemptionLoop(as_table(value).v, 1, <<>>, rep)

(***************************************************************************)
(* Config::exemptions_for                                                  *)
(***************************************************************************)
\* A variant that takes the first entry without comparing the folder.
exemptions_for_first(self, meet_folder) ==
    IF Len(self.exemptions) > 0 THEN Some(self.exemptions[1].exemptions) ELSE None

\* iter().find(|ec| ec.meet_folder == meet_folder).map(|ec| ec.exemptions)
exemptions_for(self, meet_folder) ==
    IF \E i \in 1..Len(self.exemptions) : self.exemptions[i].meet_folder = meet_folder
    THEN Some(self.exemptions[CHOOSE i \in 1..Len(self.exemptions) :
                  /\ self.exemptions[i].meet_folder = meet_folder
                  /\ \A j \in 1..(i - 1) :
                         self.exemptions[j].meet_folder # meet_folder].exemptions)
    ELSE None

(***************************************************************************)
(* parse_config, one action per step, and the calls of exemptions_for on   *)
(* the Config it produced                                                  *)
(***************************************************************************)
\* Detect unknown sections: one error per key outside the three names.
RECURSIVE UnknownSections(_, _, _)
UnknownSections(table, i, rep) ==
    IF i > Len(table) THEN rep
    ELSE UnknownSections(table, i + 1,
             IF table[i].k \in {"divisions", "exemptions", "weightclasses"}
             THEN rep
             ELSE ReportError(rep, "Unknown section '{}'", <<table[i].k>>))

\* The highest-level Value must be a table.
RootNotTable ==
    /\ pc = "root"
    /\ as_table(root) = None
    /\ report' = ReportError(report, "Root value must be a Table", <<>>)
    /\ config' = None
    /\ pc' = "done"
    /\ UNCHANGED <<root, divisions, weightclasses, exemptions, lookup>>

RootIsTable ==
    /\ pc = "root"
    /\ as_table(root) # None
    /\ pc' = "divisions"
    /\ UNCHANGED <<root, report, divisions, weightclasses, exemptions, config, lookup>>

\* Parse the "divisions" table.
ParseDivisions ==
    /\ pc = "divisions"
    /\ MapGet(root.v, "divisions") # None
    /\ LET r == parse_divisions(MapGet(root.v, "divisions").v, report) IN
         /\ divisions' = r.acc
         /\ report' = r.report
    /\ pc' = "weightclasses"
    /\ UNCHANGED <<root, weightclasses, exemptions, config, lookup>>

MissingDivisions ==
    /\ pc = "divisions"
    /\ MapGet(root.v, "divisions") = None
    /\ report' = ReportError(report, "Missing the 'divisions' table", <<>>)
    /\ config' = None
    /\ pc' = "done"
    /\ UNCHANGED <<root, divisions, weightclasses, exemptions, lookup>>

\* Parse the "weightclasses" table.
ParseWeightclasses ==
    /\ pc = "weightclasses"
    /\ MapGet(root.v, "weightclasses") # None
    /\ LET r == parse_weightclasses(MapGet(root.v, "weightclasses").v, divisions, report) IN
         /\ weightclasses' = r.acc
         /\ report' = r.report
    /\ pc' = "exemptions"
    /\ UNCHANGED <<root, divisions, exemptions, config, lookup>>

\* A variant that records the error and goes on to the next section.
MissingWeightclassesGoesOn ==
    /\ pc = "weightclasses"
    /\ MapGet(root.v, "weightclasses") = None
    /\ report' = ReportError(report, "Missing the 'weightclasses' table", <<>>)
    /\ pc' = "exemptions"
    /\ UNCHANGED <<root, divisions, weightclasses, exemptions, config, lookup>>

MissingWeightclasses ==
    /\ pc = "weightclasses"
    /\ MapGet(root.v, "weightclasses") = None
    /\ report' = ReportError(report, "Missing the 'weightclasses' table", <<>>)
    /\ config' = None
    /\ pc' = "done"
    /\ UNCHANGED <<root, divisions, weightclasses, exemptions, lookup>>

\* Parse the "exemptions" table.
ParseExemptions ==
    /\ pc = "exemptions"
    /\ MapGet(root.v, "exemptions") # None
    /\ LET r == parse_exemptions(MapGet(root.v, "exemptions").v, report) IN
         /\ exemptions' = r.acc
         /\ report' = r.report
    /\ pc' = "unknown"
    /\ UNCHANGED <<root, divisions, weightclasses, config, lookup>>

\* A variant that treats a missing section as an empty one.
MissingExemptionsAsEmpty ==
    /\ pc = "exemptions"
    /\ MapGet(root.v, "exemptions") = None
    /\ report' = ReportError(report, "Missing the 'exemptions' table", <<>>)
    /\ pc' = "unknown"
    /\ UNCHANGED <<root, divisions, weightclasses, exemptions, config, lookup>>

MissingExemptions ==
    /\ pc = "exemptions"
    /\ MapGet(root.v, "exemptions") = None
    /\ report' = ReportError(report, "Missing the 'exemptions' table", <<>>)
    /\ config' = None
    /\ pc' = "done"
    /\ UNCHANGED <<root, divisions, weightclasses, exemptions, lookup>>

\* Detect unknown sections, and return Some(Config).
DetectUnknownSections ==
    /\ pc = "unknown"
    /\ report' = UnknownSections(root.v, 1, report)
    /\ config' = Some([divisions |-> divisions, weightclasses |-> weightclasses,
                       exemptions |-> exemptions])
    /\ pc' = "done"
    /\ UNCHANGED <<root, divisions, weightclasses, exemptions, lookup>>

\* The folders downstream checks ask about.
MeetFolders == {"1901", "9804", "9999"}

\* A downstream call config.exemptions_for(meet_folder) on the produced Config.
ExemptionsFor ==
    /\ pc = "done"
    /\ config # None
    /\ \E meet_folder \in MeetFolders :
         lookup' = Some([meet_folder |-> meet_folder,
                         result |-> exemptions_for(config.v, meet_folder)])
    /\ UNCHANGED <<root, pc, report, divisions, weightclasses, exemptions, config>>

Next ==
    \/ RootNotTable
    \/ RootIsTable
    \/ ParseDivisions
    \/ MissingDivisions
    \/ ParseWeightclasses
    \/ MissingWeightclasses
    \/ ParseExemptions
    \/ MissingExemptions
    \/ DetectUnknownSections
    \/ ExemptionsFor

\* The state parse_config starts in, for a given root.
Start(r) ==
    /\ root = r
    /\ pc = "root"
    /\ report = <<>>
    /\ divisions = <<>>
    /\ weightclasses = <<>>
    /\ exemptions = <<>>
    /\ config = None
    /\ lookup = None

(***************************************************************************)
(* The configuration trees parse_config is run on                          *)
(***************************************************************************)
\* A key that the file does not write.
Absent == [t |-> "Absent"]

\* The table holding the members that are written.
TableOf(pairs) == TomlTable(SelectSeq(pairs, LAMBDA p : p.val # Absent))

\* A section: its entries under the keys <prefix>1, <prefix>2, ... in key order.
Section(prefix, entries) ==
    TomlTable([i \in 1..Len(entries) |-> [k |-> prefix \o ToString(i), val |-> entries[i]]])

\* All sequences over S of length at most n.
SeqsUpTo(S, n) == UNION {[1..k -> S] : k \in 0..n}

\* [divisions.<key>]
Division(name, min, max, sex, equipment, tested) ==
    TableOf(<<[k |-> "equipment", val |-> equipment], [k |-> "max", val |-> max],
              [k |-> "min", val |-> min], [k |-> "name", val |-> name],
              [k |-> "sex", val |-> sex], [k |-> "tested", val |-> tested]>>)

\* [weightclasses.<key>]
WeightClass(classes, date_range, sex, divs) ==
    TableOf(<<[k |-> "classes", val |-> classes], [k |-> "date_range", val |-> date_range],
              [k |-> "divisions", val |-> divs], [k |-> "sex", val |-> sex]>>)

\* The root table, in key order.
Root(divs, wcs, exs, foo, bar) ==
    TableOf(<<[k |-> "bar", val |-> bar], [k |-> "divisions", val |-> divs],
              [k |-> "exemptions", val |-> exs], [k |-> "foo", val |-> foo],
              [k |-> "weightclasses", val |-> wcs]>>)

GoodDivision ==
    Division(TomlString("Open"), TomlInteger(1), TomlFloat(25),
             TomlString("F"), TomlString("Raw"), TomlString("Yes"))
GoodDateRange == TomlArray(<<TomlString("2011-01-01"), TomlString("2018-12-31")>>)
GoodClasses == TomlArray(<<TomlInteger(1), TomlFloat(15)>>)
GoodWeightClass == WeightClass(GoodClasses, GoodDateRange, TomlString("M"), Absent)

GoodDivisions == Section("d", <<GoodDivision>>)
GoodWeightClasses == Section("w", <<GoodWeightClass>>)
GoodExemptions ==
    TomlTable(<<[k |-> "1901", val |-> TomlArray(<<TomlString("ExemptLiftOrder")>>)]>>)

\* Sections that make their parser record errors.
BadDivisions ==
    Section("d", <<Division(TomlInteger(3), Absent, Absent, Absent, Absent, Absent),
                   Division(TomlString("Master"), TomlInteger(2), TomlInteger(1),
                            Absent, Absent, Absent)>>)
BadWeightClasses ==
    Section("w", <<WeightClass(TomlInteger(1), GoodDateRange, TomlString("M"), Absent),
                   WeightClass(TomlArray(<<TomlInteger(2), TomlInteger(1)>>), GoodDateRange,
                               TomlString("F"), TomlArray(<<TomlString("Ghost")>>))>>)
BadExemptions ==
    TomlTable(<<[k |-> "1901", val |-> TomlInteger(5)],
                [k |-> "9804", val |-> TomlArray(<<TomlString("Bogus")>>)]>>)

\* Roots for the assembler: every section absent, not a table, well-formed or
\* erroneous, with and without unknown sections; and roots that are no table.
AssemblerRoots ==
    {TomlInteger(0), TomlArray(<<>>)} \cup
    {Root(d, w, e, foo, bar) :
        d \in {Absent, TomlInteger(1), GoodDivisions, BadDivisions},
        w \in {Absent, TomlString("x"), GoodWeightClasses, BadWeightClasses},
        e \in {Absent, TomlArray(<<>>), GoodExemptions, BadExemptions},
        foo \in {Absent, TomlTable(<<>>)},
        bar \in {Absent, TomlInteger(1)}}

\* The few roots that take parse_config through every one of its returns.
ShapeRoots ==
    {TomlInteger(0)} \cup
    {Root(d, w, e, Absent, Absent) :
        d \in {Absent, GoodDivisions}, w \in {Absent, GoodWeightClasses},
        e \in {Absent, GoodExemptions}}

Init == \E r \in AssemblerRoots : Start(r)

Spec == Init /\ [][Next]_vars

(***************************************************************************)
(* The assembler: when a Config is produced, and where parse_config stops  *)
(***************************************************************************)
RequiredSections == <<"divisions", "weightclasses", "exemptions">>

SectionMissing(s) == ValueGet(root, s) = None

HasError(msg) == \E i \in 1..Len(report) : report[i].msg = msg

ErrorCount(msg) == Cardinality({i \in 1..Len(report) : report[i].msg = msg})

\* C1: parse_config returns config = None exactly when the root is no table or
\* one of 'divisions', 'weightclasses', 'exemptions' is absent from it; in every
\* other case it returns Some(Config), whatever errors the section parsers
\* record and whatever unknown sections are present.
C1_ConfigNoneExactly ==
    pc = "done" =>
        (config = None <=>
            \/ as_table(root) = None
            \/ \E n \in 1..Len(RequiredSections) : SectionMissing(RequiredSections[n]))

\* A Config is produced although the section parsers recorded errors and
\* unknown sections are present.
C1_Witness ==
    /\ pc = "done"
    /\ config # None
    /\ ErrorCount("Unknown section '{}'") = 2
    /\ HasError("Section 'divisions' must be a Table")
    /\ HasError("exemptions.{} must be an Array")

\* The messages each section parser can record.
DivisionMessages ==
    {"Section 'divisions' must be a Table", "Value '{}.name' must be a String",
     "Division name '{}' must be unique", "Division name '{}' must use plural 'Masters'",
     "Failed parsing {}.{}: {}", "Division '{}' is missing the property '{}'",
     "Division '{}' has an invalid age range '{}-{}'", "Failed parsing {}.sex: {}",
     "{}.equipment cannot be empty", "Error in {}.equipment: {}",
     "{}.equipment must be a sting or array", "Failed parsing {}.tested: invalid '{}'"}
WeightClassMessages ==
    {"Section 'weightclasses' must be a Table", "Value '{}.classes' must be an Array",
     "Error in '{}.classes': {}", "Array '{}.date_range' must have 2 items",
     "Error in '{}.date_range': {}", "Value '{}.date_range' must be an Array",
     "Error in '{}.sex': {}", "Value '{}.sex' must be a String",
     "Invalid division '{}' in {}.divisions", "Array '{}.divisions' may only contain Strings",
     "Value '{}.divisions' must be an Array",
     "WeightClassKg '{}' occurs before '{}' in [weightclasses.{}]"}
ExemptionMessages ==
    {"Section 'exemptions' must be a Table", "exemptions.{} must be an Array",
     "exemptions.{} must contain Strings", "Error in exemptions.{}: {}"}

MissingMessage(s) == "Missing the '" \o s \o "' table"

\* The messages a run that stops at missing section number n may hold before
\* its last entry: those of the sections parsed before it.
MessagesBefore(n) ==
    CASE n = 1 -> {}
      [] n = 2 -> DivisionMessages
      [] n = 3 -> DivisionMessages \cup WeightClassMessages

\* The first of the required sections that the root table lacks.
FirstMissing ==
    CHOOSE n \in 1..Len(RequiredSections) :
        /\ SectionMissing(RequiredSections[n])
        /\ \A m \in 1..(n - 1) : ~SectionMissing(RequiredSections[m])

\* The report of the section parsers run on the sections before number n.
ReportBefore(n) ==
    LET d == parse_divisions(ValueGet(root, "divisions").v, <<>>) IN
    CASE n = 1 -> <<>>
      [] n = 2 -> d.report
      [] n = 3 -> parse_weightclasses(ValueGet(root, "weightclasses").v, d.acc, d.report).report

\* C2: when a required section is missing, parse_config stops at the first
\* missing one in the order divisions, weightclasses, exemptions: config is
\* None, the report holds the errors of the sections parsed before it followed
\* by the single "Missing the '<section>' table" error as its last entry, and no
\* error of a later section and no 'Unknown section' error.
C2_StopsAtFirstMissing ==
    (/\ pc = "done"
     /\ as_table(root) # None
     /\ \E n \in 1..Len(RequiredSections) : SectionMissing(RequiredSections[n]))
    => /\ config = None
       /\ Len(report) >= 1
       /\ report[Len(report)].msg = MissingMessage(RequiredSections[FirstMissing])
       /\ \A i \in 1..(Len(report) - 1) : report[i].msg \in MessagesBefore(FirstMissing)
       /\ SubSeq(report, 1, Len(report) - 1) = ReportBefore(FirstMissing)

\* 'weightclasses' is missing, 'divisions' recorded errors before it, and an
\* erroneous 'exemptions' section and an unknown section were never looked at.
C2_Witness ==
    /\ pc = "done"
    /\ as_table(root) # None
    /\ ~SectionMissing("divisions")
    /\ SectionMissing("weightclasses")
    /\ ValueGet(root, "exemptions") = Some(BadExemptions)
    /\ ValueGet(root, "foo") # None
    /\ Len(report) = 4
    /\ report[4].msg = "Missing the 'weightclasses' table"

(***************************************************************************)
(* The exemptions section and the lookup                                   *)
(***************************************************************************)
\* The longest exemptions array of the model.
MaxExemptions == 2

ExemptionItems ==
    {TomlInteger(1), TomlString("ExemptLiftOrder"), TomlString("ExemptDivision"),
     TomlString("exemptdivision")}

ExemptionValues ==
    {TomlInteger(5)} \cup {TomlArray(a) : a \in SeqsUpTo(ExemptionItems, MaxExemptions)}

ExemptionTables ==
    {TableOf(<<[k |-> "1901", val |-> a], [k |-> "9804", val |-> b]>>) :
        a \in {Absent} \cup ExemptionValues, b \in {Absent} \cup ExemptionValues}

ExemptionRoots ==
    ShapeRoots \cup
    {Root(GoodDivisions, GoodWeightClasses, e, Absent, Absent) : e \in ExemptionTables}

InitExemptions == \E r \in ExemptionRoots : Start(r)

SpecExemptions == InitExemptions /\ [][Next]_vars

\* The entries of the Config with the given folder.
EntriesFor(meet_folder) ==
    {i \in 1..Len(config.v.exemptions) :
        config.v.exemptions[i].meet_folder = meet_folder}

LookupCorrect ==
    lookup # None =>
        IF EntriesFor(lookup.v.meet_folder) = {}
        THEN lookup.v.result = None
        ELSE /\ lookup.v.result # None
             /\ \A i \in EntriesFor(lookup.v.meet_folder) :
                    lookup.v.result.v = config.v.exemptions[i].exemptions

\* C3: on every Config produced by parse_config, exemptions_for(f) returns the
\* exemption list of the ExemptionConfig whose meet_folder equals f when there
\* is one, and absent exactly when there is none; the call leaves the Config
\* (and the report) unchanged.
C3_ExemptionsFor ==
    /\ []LookupCorrect
    /\ [][pc = "done" => (config' = config /\ report' = report)]_vars

\* exemptions_for("9804") passed over the entry of "1901" and returned the
\* list of the second entry.
C3_Witness ==
    /\ lookup # None
    /\ lookup.v.meet_folder = "9804"
    /\ Len(config.v.exemptions) = 2
    /\ config.v.exemptions[1].meet_folder = "1901"
    /\ config.v.exemptions[1].exemptions = <<Exemption("ExemptDivision")>>
    /\ lookup.v.result = Some(<<Exemption("ExemptLiftOrder")>>)

\* The exemptions section of the root, once a Config was produced.
ExemptionsTable == as_table(ValueGet(root, "exemptions").v)

\* The elements of an array that name an Exemption variant, as variants.
NamedExemptions(array) ==
    LET named == SelectSeq(array, LAMBDA x : x.t = "String" /\ x.v \in ExemptionVariants)
    IN [i \in 1..Len(named) |-> Exemption(named[i].v)]

\* The statement of C4 as written: every key of the exemptions table has an
\* ExemptionConfig, so exemptions_for(k) is present for every key k.
C4_EveryKeyPresent ==
    (pc = "done" /\ config # None /\ ExemptionsTable # None) =>
        \A i \in 1..Len(ExemptionsTable.v) :
            exemptions_for(config.v, ExemptionsTable.v[i].k) # None

\* C4 (amended): parse_exemptions appends one ExemptionConfig for every entry
\* of the 'exemptions' table whose value is an array, in table order: its list
\* holds exactly the elements that parsed to an Exemption variant, in order, and
\* it is appended even when that list is empty.  An entry whose value is not an
\* array records one "must be an Array" error and is not appended.  Hence
\* exemptions_for(k) is present exactly for the keys k whose value is an array.
C4_ArrayEntriesAppended ==
    (pc = "done" /\ config # None /\ ExemptionsTable # None) =>
        LET arrays == SelectSeq(ExemptionsTable.v, LAMBDA p : p.val.t = "Array") IN
        /\ Len(config.v.exemptions) = Len(arrays)
        /\ \A i \in 1..Len(arrays) :
              /\ config.v.exemptions[i].meet_folder = arrays[i].k
              /\ config.v.exemptions[i].exemptions = NamedExemptions(arrays[i].val.v)
        /\ \A i \in 1..Len(ExemptionsTable.v) :
              exemptions_for(config.v, ExemptionsTable.v[i].k) # None
                  <=> ExemptionsTable.v[i].val.t = "Array"
        /\ ErrorCount("exemptions.{} must be an Array")
               = Len(ExemptionsTable.v) - Len(arrays)

\* One entry is no array and is dropped; the other is an array none of whose
\* two elements parses, and it is appended with an empty list.
C4_Witness ==
    /\ pc = "done"
    /\ config # None
    /\ ExemptionsTable # None
    /\ Len(ExemptionsTable.v) = 2
    /\ ExemptionsTable.v[1].val.t # "Array"
    /\ config.v.exemptions = <<[meet_folder |-> "9804", exemptions |-> <<>>]>>
    /\ ErrorCount("exemptions.{} must contain Strings") = 1
    /\ ErrorCount("Error in exemptions.{}: {}") = 1

(***************************************************************************)
(* The divisions section: duplicate names                                  *)
(***************************************************************************)
\* The most entries of a divisions table.
MaxDivisions == 3

NameValues == {TomlInteger(3), TomlString("Open"), TomlString("Master")}

\* min and max: a valid range, a missing min, a decreasing range.
RangeValues ==
    {<<TomlInteger(1), TomlFloat(25)>>, <<Absent, TomlInteger(2)>>,
     <<TomlInteger(3), TomlInteger(1)>>}

NamedDivisions ==
    {Division(n, r[1], r[2], Absent, Absent, Absent) : n \in NameValues, r \in RangeValues}

DivisionRoots ==
    ShapeRoots \cup
    {Root(Section("d", ds), GoodWeightClasses, GoodExemptions, Absent, Absent) :
        ds \in SeqsUpTo(NamedDivisions, MaxDivisions)}

InitDivisions == \E r \in DivisionRoots : Start(r)

SpecDivisions == InitDivisions /\ [][Next]_vars

\* parse_divisions has run on a 'divisions' section that is a table.
DivisionsParsed ==
    /\ pc \notin {"root", "divisions"}
    /\ ValueGet(root, "divisions") # None
    /\ as_table(ValueGet(root, "divisions").v) # None

DivisionsTable == as_table(ValueGet(root, "divisions").v).v

\* The entry has a string name, parseable min and max and a valid age range:
\* parse_divisions accepts it.
Accepted(key, division) ==
    /\ DivisionName(division) # None
    /\ AgeField(key, division, "min").t = "Ok"
    /\ AgeField(key, division, "max").t = "Ok"
    /\ ~InvalidAgeRange(AgeField(key, division, "min").v, AgeField(key, division, "max").v)

UniqueErrors(name) ==
    Cardinality({i \in 1..Len(report) :
        /\ report[i].msg = "Division name '{}' must be unique"
        /\ report[i].args = <<name>>})

\* The statement of C5 as written: two entries with the same string name give
\* at least one "must be unique" error for it, whatever their other fields.
C5_AnyDuplicateReported ==
    DivisionsParsed =>
        \A i, j \in 1..Len(DivisionsTable) :
            (/\ i < j
             /\ DivisionName(DivisionsTable[i].val) # None
             /\ DivisionName(DivisionsTable[i].val) = DivisionName(DivisionsTable[j].val))
            => UniqueErrors(DivisionName(DivisionsTable[i].val).v) >= 1

\* C5 (amended): parse_divisions records one "Division name '<name>' must be
\* unique" error for every entry with a string name that an entry iterated
\* before it and accepted into the output (string name, parseable min and max,
\* valid age range) carries too, and no other: two entries of the same name give
\* at least one such error when the one iterated first is accepted, whatever the
\* other fields of the second are.
C5_DuplicateOfAcceptedReported ==
    DivisionsParsed =>
        \A name \in DivisionNames :
            UniqueErrors(name) =
                Cardinality({j \in 1..Len(DivisionsTable) :
                    /\ DivisionName(DivisionsTable[j].val) = Some(name)
                    /\ \E i \in 1..(j - 1) :
                          /\ DivisionName(DivisionsTable[i].val) = Some(name)
                          /\ Accepted(DivisionsTable[i].k, DivisionsTable[i].val)})

\* Three entries named "Open": the first is dropped for its age range, the
\* second is accepted without an error, the third is dropped and still reported
\* as a duplicate of the second.
C5_Witness ==
    /\ DivisionsParsed
    /\ Len(DivisionsTable) = 3
    /\ \A i \in 1..3 : DivisionName(DivisionsTable[i].val) = Some("Open")
    /\ ~Accepted("d1", DivisionsTable[1].val)
    /\ Accepted("d2", DivisionsTable[2].val)
    /\ ~Accepted("d3", DivisionsTable[3].val)
    /\ Len(divisions) = 1
    /\ UniqueErrors("Open") = 1

(***************************************************************************)
(* The divisions section: the age range                                    *)
(***************************************************************************)
\* The greatest age written in a division of the model.
MaxAge == 3

AgeValues ==
    {Absent, TomlString("x")}
    \cup {TomlInteger(n) : n \in 1..MaxAge}
    \cup {TomlFloat(10 * n + 5) : n \in 1..MaxAge}

AgedDivisions ==
    {Division(TomlString("Juniors"), mn, mx, Absent, Absent, Absent) :
        mn \in AgeValues, mx \in AgeValues}

AgeRoots ==
    ShapeRoots \cup
    {Root(Section("d", ds), GoodWeightClasses, GoodExemptions, Absent, Absent) :
        ds \in {<<e>> : e \in AgedDivisions} \cup {<<GoodDivision, e>> : e \in AgedDivisions}}

InitAges == \E r \in AgeRoots : Start(r)

SpecAges == InitAges /\ [][Next]_vars

\* The entries of the divisions table with a string name and parseable ages.
AgedEntries ==
    {i \in 1..Len(DivisionsTable) :
        /\ DivisionName(DivisionsTable[i].val) # None
        /\ AgeField(DivisionsTable[i].k, DivisionsTable[i].val, "min").t = "Ok"
        /\ AgeField(DivisionsTable[i].k, DivisionsTable[i].val, "max").t = "Ok"}

MinOf(i) == TryIntoAge(ValueGet(DivisionsTable[i].val, "min").v).v
MaxOf(i) == TryIntoAge(ValueGet(DivisionsTable[i].val, "max").v).v

\* A DivisionConfig with the name and ages of entry i is in the output.
Emitted(i) ==
    \E k \in 1..Len(divisions) :
        /\ divisions[k].name = DivisionName(DivisionsTable[i].val).v
        /\ divisions[k].min = MinOf(i)
        /\ divisions[k].max = MaxOf(i)

AgeRangeErrors(key) ==
    Cardinality({i \in 1..Len(report) :
        /\ report[i].msg = "Division '{}' has an invalid age range '{}-{}'"
        /\ report[i].args[1] = key})

\* The invariant as the data model words it: min is not provably greater than
\* max; for two approximate ages, min's approximate value is less than max's.
StatedAgeInvariant(min_age, max_age) ==
    IF min_age.kind = "Approximate" /\ max_age.kind = "Approximate"
    THEN min_age.age < max_age.age
    ELSE ~is_definitely_greater_than(min_age, max_age)

\* The range the code lets through: equal ages, min definitely less than max,
\* or two approximate ages with min's value less than max's.
CheckedAgeRange(min_age, max_age) ==
    \/ min_age = max_age
    \/ is_definitely_less_than(min_age, max_age)
    \/ /\ min_age.kind = "Approximate"
       /\ max_age.kind = "Approximate"
       /\ min_age.age < max_age.age

\* The statement of C8 as written: every emitted DivisionConfig satisfies the
\* stated invariant; an entry with a string name and parseable ages that
\* violates it records one "invalid age range" error and is absent from the
\* output; an entry that satisfies it is not dropped.
C8_StatedInvariantDecides ==
    DivisionsParsed =>
        /\ \A k \in 1..Len(divisions) :
              StatedAgeInvariant(divisions[k].min, divisions[k].max)
        /\ \A i \in AgedEntries :
              IF StatedAgeInvariant(MinOf(i), MaxOf(i))
              THEN Emitted(i) /\ AgeRangeErrors(DivisionsTable[i].k) = 0
              ELSE ~Emitted(i) /\ AgeRangeErrors(DivisionsTable[i].k) = 1

\* C8 (amended): every DivisionConfig emitted by parse_divisions has min equal
\* to max, or min definitely less than max, or two approximate ages with min's
\* value less than max's.  An entry with a string name and parseable min/max
\* outside that range, such as min = 10.5 and max = 9.5, records one "invalid
\* age range" error and is absent from the output, so the output has one record
\* fewer than the declared entries; an entry inside it is never dropped by
\* this check.
C8_CheckedRangeDecides ==
    DivisionsParsed =>
        /\ \A k \in 1..Len(divisions) :
              CheckedAgeRange(divisions[k].min, divisions[k].max)
        /\ \A i \in AgedEntries :
              IF CheckedAgeRange(MinOf(i), MaxOf(i))
              THEN Emitted(i) /\ AgeRangeErrors(DivisionsTable[i].k) = 0
              ELSE ~Emitted(i) /\ AgeRangeErrors(DivisionsTable[i].k) = 1
        /\ Len(divisions) =
              Cardinality({i \in AgedEntries : CheckedAgeRange(MinOf(i), MaxOf(i))})

\* Two declared entries; the second has min = 2.5 and max = 1.5, records the
\* one age range error of the report and is absent from the output.
C8_Witness ==
    /\ DivisionsParsed
    /\ Len(DivisionsTable) = 2
    /\ AgedEntries = {1, 2}
    /\ MinOf(2) = AgeApproximate(2)
    /\ MaxOf(2) = AgeApproximate(1)
    /\ AgeRangeErrors("d2") = 1
    /\ Len(divisions) = 1
    /\ ~Emitted(2)

(***************************************************************************)
(* The divisions section: equipment and tested                             *)
(***************************************************************************)
\* The longest equipment array of the model.
MaxEquipment == 2

EquipmentItems ==
    {TomlString("Raw"), TomlString("Wraps"), TomlString("Bogus"), TomlInteger(1)}

EquipmentValues ==
    {Absent, TomlBoolean(TRUE), TomlString("Raw"), TomlString("Bogus")}
    \cup {TomlArray(a) : a \in SeqsUpTo(EquipmentItems, MaxEquipment)}

TestedValues ==
    {Absent, TomlString("Yes"), TomlString("No"), TomlString("Maybe"), TomlString("yes"),
     TomlBoolean(TRUE), TomlInteger(1)}

EquippedDivisions ==
    {Division(TomlString("Juniors"), r[1], r[2], Absent, eq, ts) :
        r \in {<<TomlInteger(1), TomlFloat(25)>>, <<TomlInteger(3), TomlInteger(1)>>},
        eq \in EquipmentValues, ts \in TestedValues}

EquipmentRoots ==
    ShapeRoots \cup
    {Root(Section("d", <<e>>), GoodWeightClasses, GoodExemptions, Absent, Absent) :
        e \in EquippedDivisions}

InitEquipment == \E r \in EquipmentRoots : Start(r)

SpecEquipment == InitEquipment /\ [][Next]_vars

\* The entries parse_divisions accepts, in table order: the k-th of them is
\* the source of the k-th DivisionConfig.
AcceptedEntries == SelectSeq(DivisionsTable, LAMBDA p : Accepted(p.k, p.val))

\* The elements of an array that name an Equipment value, as values.
NamedEquipment(array) ==
    LET named == SelectSeq(array, LAMBDA x : x.t = "String" /\ x.v \in EquipmentNames)
    IN [i \in 1..Len(named) |-> [equipment |-> named[i].v]]

EquipmentErrors(key) ==
    Cardinality({i \in 1..Len(report) :
        /\ report[i].msg \in {"{}.equipment cannot be empty", "Error in {}.equipment: {}"}
        /\ report[i].args[1] = key})

\* The statement of C6 as written: no DivisionConfig of a produced Config has
\* an equipment list that is present and empty.
C6_EquipmentNeverEmpty ==
    (pc = "done" /\ config # None) =>
        \A k \in 1..Len(config.v.divisions) :
            \/ config.v.divisions[k].equipment = None
            \/ config.v.divisions[k].equipment.v # <<>>

\* C6 (amended): in every DivisionConfig of every Config produced by
\* parse_config, 'equipment' is absent when the key is absent, the value is an
\* unparseable string or the value is neither a string nor an array; otherwise
\* it is the list of the Equipment values the string or the array's elements
\* parsed to.  An empty array and an array whose elements all fail to parse
\* leave it present and empty, and then at least one equipment error is
\* recorded for the entry.
C6_EquipmentAsParsed ==
    (pc = "done" /\ config # None /\ DivisionsParsed) =>
        /\ Len(config.v.divisions) = Len(AcceptedEntries)
        /\ \A k \in 1..Len(AcceptedEntries) :
              LET raw == ValueGet(AcceptedEntries[k].val, "equipment")
                  equipment == config.v.divisions[k].equipment
              IN /\ IF raw = None THEN equipment = None
                    ELSE IF raw.v.t = "Array" THEN equipment = Some(NamedEquipment(raw.v.v))
                    ELSE IF raw.v.t = "String" /\ raw.v.v \in EquipmentNames
                    THEN equipment = Some(<<[equipment |-> raw.v.v]>>)
                    ELSE equipment = None
                 /\ equipment = Some(<<>>) => EquipmentErrors(AcceptedEntries[k].k) >= 1

\* A produced Config holds a division whose equipment is present and empty:
\* its array had two elements, and both failed to parse.
C6_Witness ==
    /\ pc = "done"
    /\ config # None
    /\ Len(config.v.divisions) = 1
    /\ config.v.divisions[1].equipment = Some(<<>>)
    /\ EquipmentErrors("d1") = 2

TestedErrors(key) ==
    Cardinality({i \in 1..Len(report) :
        /\ report[i].msg = "Failed parsing {}.tested: invalid '{}'"
        /\ report[i].args[1] = key})

\* C10: for a division entry that reaches the 'tested' step, tested is true
\* only for the string "Yes" and false only for the string "No"; every other
\* value present under the key, a string or not, records an error and leaves
\* the field absent; no error is recorded when the key is absent; the entry is
\* never dropped because of 'tested'.
C10_TestedYesNoOrError ==
    DivisionsParsed =>
        /\ Len(divisions) = Len(AcceptedEntries)
        /\ \A k \in 1..Len(AcceptedEntries) :
              LET raw == ValueGet(AcceptedEntries[k].val, "tested")
                  tested == divisions[k].tested
                  errors == TestedErrors(AcceptedEntries[k].k)
              IN /\ tested = Some(TRUE) <=> raw = Some(TomlString("Yes"))
                 /\ tested = Some(FALSE) <=> raw = Some(TomlString("No"))
                 /\ raw = None => errors = 0
                 /\ (raw # None /\ raw.v \notin {TomlString("Yes"), TomlString("No")})
                        => (errors = 1 /\ tested = None)

(***************************************************************************)
(* The weightclasses section: the ordering of the classes                  *)
(***************************************************************************)
\* The longest classes array of the model.
MaxClasses == 3

ClassItems == {TomlInteger(1), TomlInteger(2), TomlFloat(15), TomlString("x")}

\* date_range, sex and divisions: well-formed, with an unknown division, and
\* the three ways to fail a fatal check.
RestValues ==
    {<<GoodDateRange, TomlString("M"), Absent>>,
     <<GoodDateRange, TomlString("F"), TomlArray(<<TomlString("Ghost")>>)>>,
     <<TomlArray(<<TomlString("2011-01-01")>>), TomlString("M"), Absent>>,
     <<GoodDateRange, TomlString("Q"), Absent>>,
     <<GoodDateRange, TomlString("M"), TomlInteger(1)>>}

ClassedWeightClasses ==
    {WeightClass(TomlArray(a), r[1], r[2], r[3]) :
        a \in SeqsUpTo(ClassItems, MaxClasses), r \in RestValues}

ClassRoots ==
    ShapeRoots \cup
    {Root(GoodDivisions, Section("w", <<e>>), GoodExemptions, Absent, Absent) :
        e \in ClassedWeightClasses}

InitClasses == \E r \in ClassRoots : Start(r)

SpecClasses == InitClasses /\ [][Next]_vars

\* parse_weightclasses has run on a 'weightclasses' section that is a table.
WeightClassesParsed ==
    /\ pc \in {"exemptions", "unknown", "done"}
    /\ ValueGet(root, "divisions") # None
    /\ ValueGet(root, "weightclasses") # None
    /\ as_table(ValueGet(root, "weightclasses").v) # None

WeightClassesTable == as_table(ValueGet(root, "weightclasses").v).v

\* The entry passes the fatal checks: classes is an array, date_range is two
\* parseable dates, sex parses, divisions is absent or an array.
PassesFatalChecks(key, weightclass) ==
    /\ AndThenAsArray(ValueGet(weightclass, "classes")) # None
    /\ DateRange(key, weightclass).t = "Ok"
    /\ WeightClassSex(key, weightclass).t = "Ok"
    /\ \/ ValueGet(weightclass, "divisions") = None
       \/ as_array(ValueGet(weightclass, "divisions").v) # None

\* The entries that pass, in table order: the k-th of them is the source of
\* the k-th WeightClassConfig.
PassingEntries ==
    SelectSeq(WeightClassesTable, LAMBDA p : PassesFatalChecks(p.k, p.val))

\* The thresholds of a classes array that parse, in tenths, in file order.
ParsedClasses(array) ==
    LET good == SelectSeq(array, LAMBDA x : x.t \in {"Integer", "Float"} /\ x.v >= 0)
    IN [i \in 1..Len(good) |-> IF good[i].t = "Integer" THEN 10 * good[i].v ELSE good[i].v]

OrderingErrors(key) ==
    Cardinality({i \in 1..Len(report) :
        /\ report[i].msg = "WeightClassKg '{}' occurs before '{}' in [weightclasses.{}]"
        /\ report[i].args[3] = key})

\* C7: for a weightclasses entry that passes the fatal checks,
\* parse_weightclasses records exactly one ordering error for each adjacent pair
\* classes[i-1] >= classes[i] of the parsed thresholds, none when they are
\* strictly increasing, and still appends the entry with all parsed thresholds
\* in file order.
C7_OneErrorPerInversion ==
    WeightClassesParsed =>
        /\ Len(weightclasses) = Len(PassingEntries)
        /\ \A k \in 1..Len(PassingEntries) :
              LET key == PassingEntries[k].k
                  classes == ParsedClasses(ValueGet(PassingEntries[k].val, "classes").v.v)
              IN /\ weightclasses[k].name = key
                 /\ weightclasses[k].classes = classes
                 /\ OrderingErrors(key) =
                        Cardinality({i \in 2..Len(classes) : classes[i - 1] >= classes[i]})

\* classes = [2, 1.5, 1.5]: a descending and an equal pair, two ordering
\* errors, and the entry is present with the three values in file order.
C7_Witness ==
    /\ WeightClassesParsed
    /\ Len(weightclasses) = 1
    /\ weightclasses[1].classes = <<20, 15, 15>>
    /\ OrderingErrors("w1") = 2

(***************************************************************************)
(* The weightclasses section: the division restriction                     *)
(***************************************************************************)
\* The longest divisions array of a weightclasses entry of the model.
MaxDivisionRefs == 2

DivisionRefItems ==
    {TomlString("Open"), TomlString("Juniors"), TomlString("Ghost"), TomlInteger(7)}

JuniorsDivision ==
    Division(TomlString("Juniors"), TomlInteger(1), TomlInteger(2), Absent, Absent, Absent)
DroppedOpenDivision ==
    Division(TomlString("Open"), TomlInteger(3), TomlInteger(1), Absent, Absent, Absent)

\* Division sections: one division, two, one of them dropped, a duplicate
\* name, none, and a section that is no table.
ReferredDivisions ==
    {Section("d", <<GoodDivision>>), Section("d", <<JuniorsDivision, GoodDivision>>),
     Section("d", <<DroppedOpenDivision, JuniorsDivision>>),
     Section("d", <<GoodDivision, JuniorsDivision, GoodDivision>>),
     Section("d", <<>>), TomlInteger(1)}

DivisionRefRoots ==
    ShapeRoots \cup
    {Root(ds, Section("w", <<WeightClass(GoodClasses, GoodDateRange, TomlString("M"),
                                          TomlArray(refs))>>),
          GoodExemptions, Absent, Absent) :
        ds \in ReferredDivisions, refs \in SeqsUpTo(DivisionRefItems, MaxDivisionRefs)}

InitDivisionRefs == \E r \in DivisionRefRoots : Start(r)

SpecDivisionRefs == InitDivisionRefs /\ [][Next]_vars

\* A division of that name is in the Config.
IsAcceptedName(name) ==
    \E k \in 1..Len(config.v.divisions) : config.v.divisions[k].name = name

\* The elements of a divisions array that name a division of the Config.
ResolvedNames(array) ==
    SelectSeq(array, LAMBDA x : x.t = "String" /\ IsAcceptedName(x.v))

RefErrors(msg, key, at) ==
    Cardinality({i \in 1..Len(report) : report[i].msg = msg /\ report[i].args[at] = key})

\* C9: in every Config produced by parse_config, every index stored in a
\* WeightClassConfig.divisions list is smaller than the length of
\* Config.divisions, and the division at that index has the name written at
\* the corresponding place of the entry's 'divisions' array.  A name that
\* matches no accepted division and a non-string element each record one error
\* and are skipped; the entry is still appended with the indices of the
\* remaining names in array order.
C9_IndicesResolveNames ==
    (pc = "done" /\ config # None /\ WeightClassesParsed) =>
        /\ Len(config.v.weightclasses) = Len(PassingEntries)
        /\ \A k \in 1..Len(PassingEntries) :
              LET key == PassingEntries[k].k
                  raw == ValueGet(PassingEntries[k].val, "divisions")
                  indices == config.v.weightclasses[k].divisions
              IN IF raw = None THEN indices = None
                 ELSE LET names == ResolvedNames(raw.v.v) IN
                      /\ indices # None
                      /\ Len(indices.v) = Len(names)
                      /\ \A i \in 1..Len(names) :
                            /\ indices.v[i] >= 0
                            /\ indices.v[i] < Len(config.v.divisions)
                            /\ config.v.divisions[indices.v[i] + 1].name = names[i].v
                      /\ RefErrors("Invalid division '{}' in {}.divisions", key, 2) =
                            Cardinality({i \in 1..Len(raw.v.v) :
                                /\ raw.v.v[i].t = "String"
                                /\ ~IsAcceptedName(raw.v.v[i].v)})
                      /\ RefErrors("Array '{}.divisions' may only contain Strings", key, 1) =
                            Cardinality({i \in 1..Len(raw.v.v) : raw.v.v[i].t # "String"})

\* divisions = ["Open", "Juniors"] where the division "Open" was dropped by
\* parse_divisions: one error, and the entry is appended with the index of
\* "Juniors" alone.
C9_Witness ==
    /\ pc = "done"
    /\ config # None
    /\ WeightClassesParsed
    /\ Len(config.v.divisions) = 1
    /\ Len(as_table(ValueGet(root, "divisions").v).v) = 2
    /\ ValueGet(WeightClassesTable[1].val, "divisions") =
           Some(TomlArray(<<TomlString("Open"), TomlString("Juniors")>>))
    /\ config.v.weightclasses[1].divisions = Some(<<0>>)
    /\ RefErrors("Invalid division '{}' in {}.divisions", "w1", 2) = 1

====
